---- MODULE Spec2Model ----
(***************************************************************************)
(* The Redux store of src/app/index.jsx: the three slices (ui, counter,    *)
(* todos), their case reducers, the root reducer built by configureStore,  *)
(* and the CounterCard handlers that dispatch to it (bump included).       *)
(***************************************************************************)
EXTENDS Integers, Sequences, FiniteSets, TLC

(* ------------------------------ bounds --------------------------------- *)

\* todo ids nanoid() may return in the todos-only specification
MaxIds == 3
\* todo ids nanoid() may return in the whole-store specification
MaxIdsAll == 2
\* |counter.value| the guarded counter actions keep the value within
MaxValue == 2
\* |N| of a directly dispatched addByAmount(N)
MaxAmount == 2
\* number of counter actions dispatched in the logged counter specification
MaxOps == 3
\* number of bump() calls suspended on the haptics promise at one time
MaxPending == 2

ID == 1..MaxIds
IDAll == 1..MaxIdsAll
Amounts == (0 - MaxAmount)..MaxAmount
Titles == {"Buy milk", "Walk dog"}
Times == {0, 1}
\* contents of the "Custom amount" text field
CustomTexts == {<<>>, <<"1">>, <<"2">>, <<"x">>, <<"-", "1">>}

VARIABLES
    state,          \* store.getState(): [ui, counter, todos]
    prev,           \* the state the last dispatched action was applied to
    lastAction,     \* the last dispatched action {type, payload}
    hist,           \* the counter actions dispatched so far, in order
    pending,        \* deltas of the bump() calls awaiting Haptics.selectionAsync()
    customAmount,   \* CounterCard's customAmount text
    lastPress       \* the counter button pressed last

vars == <<state, prev, lastAction, hist, pending, customAmount, lastPress>>

(* --------------------------- sequence helpers -------------------------- *)

\* Array.prototype.filter with the predicate x.id !== id
RECURSIVE filterNotId(_, _)
filterNotId(s, id) ==
    IF s = <<>> THEN <<>>
    ELSE IF Head(s).id # id
         THEN <<Head(s)>> \o filterNotId(Tail(s), id)
         ELSE filterNotId(Tail(s), id)

\* Array.prototype.find with the predicate x.id === id, as the index of the
\* first match (0 when find returns undefined)
find(s, id) ==
    IF \E i \in 1..Len(s) : s[i].id = id
    THEN CHOOSE i \in 1..Len(s) :
            /\ s[i].id = id
            /\ \A j \in 1..(i - 1) : s[j].id # id
    ELSE 0

(* ------------------------------- uiSlice ------------------------------- *)

uiInitialState == [darkMode |-> FALSE, showBanner |-> TRUE]

toggleDarkMode(s) == [s EXCEPT !.darkMode = ~ s.darkMode]

dismissBanner(s) == [s EXCEPT !.showBanner = FALSE]

uiReducer(s, action) ==
    CASE action.type = "ui/toggleDarkMode" -> toggleDarkMode(s)
      [] action.type = "ui/dismissBanner" -> dismissBanner(s)
      [] OTHER -> s

(* ----------------------------- counterSlice ---------------------------- *)

counterInitialState == [value |-> 0]

increment(s) == [s EXCEPT !.value = s.value + 1]

decrement_Plus(s) == [s EXCEPT !.value = s.value + 1]

decrement(s) == [s EXCEPT !.value = s.value - 1]

reset(s) == [s EXCEPT !.value = 0]

addByAmount(s, action) == [s EXCEPT !.value = s.value + action.payload]

counterReducer_DefaultInit(s, action) ==
    CASE action.type = "counter/increment" -> increment(s)
      [] action.type = "counter/decrement" -> decrement(s)
      [] action.type = "counter/reset" -> reset(s)
      [] action.type = "counter/addByAmount" -> addByAmount(s, action)
      [] OTHER -> counterInitialState

counterReducer(s, action) ==
    CASE action.type = "counter/increment" -> increment(s)
      [] action.type = "counter/decrement" -> decrement(s)
      [] action.type = "counter/reset" -> reset(s)
      [] action.type = "counter/addByAmount" -> addByAmount(s, action)
      [] OTHER -> s

(* ------------------------------ todosSlice ----------------------------- *)

todosInitialState == [items |-> <<>>, doneItems |-> <<>>]

prepare_DoneTrue(title, id, now) ==
    [payload |-> [id |-> id, title |-> title, done |-> TRUE, createdAt |-> now]]

\* prepare(title), with the results of nanoid() and Date.now() as inputs
prepare(title, id, now) ==
    [payload |-> [id |-> id, title |-> title, done |-> FALSE, createdAt |-> now]]

addTodo_Push(s, action) == [s EXCEPT !.items = Append(s.items, action.payload)]

addTodo(s, action) == [s EXCEPT !.items = <<action.payload>> \o s.items]

toggleTodo_Unshift(s, action) ==
    LET i == find(s.items, action.payload) IN
    IF i = 0 THEN s
    ELSE LET t == [s.items[i] EXCEPT !.done = ~ s.items[i].done]
             items1 == [s.items EXCEPT ![i] = t]
         IN  IF t.done
             THEN [items |-> filterNotId(items1, action.payload),
                   doneItems |-> <<t>> \o s.doneItems]
             ELSE [items |-> <<t>> \o items1,
                   doneItems |-> filterNotId(s.doneItems, action.payload)]

toggleTodo_NoFilter(s, action) ==
    LET i == find(s.items, action.payload) IN
    IF i = 0 THEN s
    ELSE LET t == [s.items[i] EXCEPT !.done = ~ s.items[i].done]
             items1 == [s.items EXCEPT ![i] = t]
         IN  IF t.done
             THEN [items |-> items1,
                   doneItems |-> Append(s.doneItems, t)]
             ELSE [items |-> <<t>> \o items1,
                   doneItems |-> filterNotId(s.doneItems, action.payload)]

\* t is looked up in state.items only; t.done = !t.done writes through the
\* draft, so the element of items is flipped in place before the branch
toggleTodo(s, action) ==
    LET i == find(s.items, action.payload) IN
    IF i = 0 THEN s
    ELSE LET t == [s.items[i] EXCEPT !.done = ~ s.items[i].done]
             items1 == [s.items EXCEPT ![i] = t]
         IN  IF t.done
             THEN [items |-> filterNotId(items1, action.payload),
                   doneItems |-> Append(s.doneItems, t)]
             ELSE [items |-> <<t>> \o items1,
                   doneItems |-> filterNotId(s.doneItems, action.payload)]

removeTodo_ItemsOnly(s, action) ==
    [items |-> filterNotId(s.items, action.payload),
     doneItems |-> s.doneItems]

\* splice(findIndex(...), 1) in place of the two filters: findIndex's -1
\* for an absent id removes the last element
removeTodo_Splice(s, action) ==
    IF find(s.items, action.payload) = 0 /\ find(s.doneItems, action.payload) = 0
    THEN [items |-> IF s.items = <<>> THEN <<>>
                    ELSE SubSeq(s.items, 1, Len(s.items) - 1),
          doneItems |-> IF s.doneItems = <<>> THEN <<>>
                        ELSE SubSeq(s.doneItems, 1, Len(s.doneItems) - 1)]
    ELSE [items |-> filterNotId(s.items, action.payload),
          doneItems |-> filterNotId(s.doneItems, action.payload)]

removeTodo(s, action) ==
    [items |-> filterNotId(s.items, action.payload),
     doneItems |-> filterNotId(s.doneItems, action.payload)]

clearTodos(s) == [items |-> <<>>, doneItems |-> <<>>]

todosReducer(s, action) ==
    CASE action.type = "todos/addTodo" -> addTodo(s, action)
      [] action.type = "todos/toggleTodo" -> toggleTodo(s, action)
      [] action.type = "todos/removeTodo" -> removeTodo(s, action)
      [] action.type = "todos/clearTodos" -> clearTodos(s)
      [] OTHER -> s

(* -------------------------------- store -------------------------------- *)

\* the action creators: type is "<slice name>/<reducer key>"
Action(type, payload) == [type |-> type, payload |-> payload]

\* configureStore({reducer: {ui, counter, todos}}): every slice reducer
\* sees every action and answers for its own key of the state
store(s, action) ==
    [ui |-> uiReducer(s.ui, action),
     counter |-> counterReducer(s.counter, action),
     todos |-> todosReducer(s.todos, action)]

storeInitialState ==
    [ui |-> uiInitialState,
     counter |-> counterInitialState,
     todos |-> todosInitialState]

Init ==
    /\ state = storeInitialState
    /\ prev = storeInitialState
    /\ lastAction = Action("@@INIT", "none")
    /\ hist = <<>>
    /\ pending = <<>>
    /\ customAmount = <<"1">>
    /\ lastPress = "none"

\* store.dispatch(action)
dispatch(action) ==
    /\ state' = store(state, action)
    /\ prev' = state
    /\ lastAction' = action

(* --------------------- transitions of the todos slice ------------------ *)

idsOf(t) ==
    {t.items[i].id : i \in 1..Len(t.items)}
        \cup {t.doneItems[i].id : i \in 1..Len(t.doneItems)}

\* dispatch(addTodo(title)); nanoid() returns an id no todo of the store has
AddTodo(ids, titles, times) ==
    \E title \in titles, id \in ids \ idsOf(state.todos), now \in times :
        /\ dispatch(Action("todos/addTodo", prepare(title, id, now).payload))
        /\ UNCHANGED <<hist, pending, customAmount, lastPress>>

\* dispatch(toggleTodo(id)), for any id, present or not
ToggleTodo(ids) ==
    \E id \in ids :
        /\ dispatch(Action("todos/toggleTodo", id))
        /\ UNCHANGED <<hist, pending, customAmount, lastPress>>

\* dispatch(removeTodo(id)), for any id, present or not
RemoveTodo(ids) ==
    \E id \in ids :
        /\ dispatch(Action("todos/removeTodo", id))
        /\ UNCHANGED <<hist, pending, customAmount, lastPress>>

ClearTodos ==
    /\ dispatch(Action("todos/clearTodos", "none"))
    /\ UNCHANGED <<hist, pending, customAmount, lastPress>>

NextTodos ==
    \/ AddTodo(ID, Titles, Times)
    \/ ToggleTodo(ID)
    \/ RemoveTodo(ID)
    \/ ClearTodos

\* the todos slice driven by every sequence of its four actions
SpecTodos == Init /\ [][NextTodos]_vars

(* ------------------ transitions of the ui and counter slices ----------- *)

ToggleDarkMode ==
    /\ dispatch(Action("ui/toggleDarkMode", "none"))
    /\ UNCHANGED <<hist, pending, customAmount, lastPress>>

DismissBanner ==
    /\ dispatch(Action("ui/dismissBanner", "none"))
    /\ UNCHANGED <<hist, pending, customAmount, lastPress>>

Increment ==
    /\ state.counter.value < MaxValue
    /\ dispatch(Action("counter/increment", "none"))
    /\ UNCHANGED <<hist, pending, customAmount, lastPress>>

Decrement ==
    /\ state.counter.value > 0 - MaxValue
    /\ dispatch(Action("counter/decrement", "none"))
    /\ UNCHANGED <<hist, pending, customAmount, lastPress>>

Reset ==
    /\ dispatch(Action("counter/reset", "none"))
    /\ UNCHANGED <<hist, pending, customAmount, lastPress>>

AddByAmount ==
    \E n \in Amounts :
        /\ state.counter.value + n <= MaxValue
        /\ state.counter.value + n >= 0 - MaxValue
        /\ dispatch(Action("counter/addByAmount", n))
        /\ UNCHANGED <<hist, pending, customAmount, lastPress>>

Next ==
    \/ ToggleDarkMode
    \/ DismissBanner
    \/ Increment
    \/ Decrement
    \/ Reset
    \/ AddByAmount
    \/ AddTodo(IDAll, {"Buy milk"}, {0})
    \/ ToggleTodo(IDAll)
    \/ RemoveTodo(IDAll)
    \/ ClearTodos

\* the whole store driven by every sequence of the ten actions
Spec == Init /\ [][Next]_vars

(* ------------- the counter slice with the dispatched actions logged ---- *)

LogIncrement ==
    /\ Len(hist) < MaxOps
    /\ dispatch(Action("counter/increment", "none"))
    /\ hist' = Append(hist, Action("counter/increment", "none"))
    /\ UNCHANGED <<pending, customAmount, lastPress>>

LogDecrement ==
    /\ Len(hist) < MaxOps
    /\ dispatch(Action("counter/decrement", "none"))
    /\ hist' = Append(hist, Action("counter/decrement", "none"))
    /\ UNCHANGED <<pending, customAmount, lastPress>>

LogReset ==
    /\ Len(hist) < MaxOps
    /\ dispatch(Action("counter/reset", "none"))
    /\ hist' = Append(hist, Action("counter/reset", "none"))
    /\ UNCHANGED <<pending, customAmount, lastPress>>

LogAddByAmount ==
    \E n \in Amounts :
        /\ Len(hist) < MaxOps
        /\ dispatch(Action("counter/addByAmount", n))
        /\ hist' = Append(hist, Action("counter/addByAmount", n))
        /\ UNCHANGED <<pending, customAmount, lastPress>>

NextCounter ==
    \/ LogIncrement
    \/ LogDecrement
    \/ LogReset
    \/ LogAddByAmount

\* the counter slice driven by every sequence of at most MaxOps actions
SpecCounter == Init /\ [][NextCounter]_vars

(* ------------------------------ CounterCard ---------------------------- *)

DigitVal(c) ==
    CASE c = "0" -> 0 [] c = "1" -> 1 [] c = "2" -> 2 [] c = "3" -> 3
      [] c = "4" -> 4 [] c = "5" -> 5 [] c = "6" -> 6 [] c = "7" -> 7
      [] c = "8" -> 8 [] c = "9" -> 9

IsDigits(s) ==
    \A i \in 1..Len(s) :
        s[i] \in {"0", "1", "2", "3", "4", "5", "6", "7", "8", "9"}

RECURSIVE DigitsValue(_)
DigitsValue(s) ==
    IF s = <<>> THEN 0
    ELSE 10 * DigitsValue(SubSeq(s, 1, Len(s) - 1)) + DigitVal(s[Len(s)])

\* Number(text) on the characters the field holds: "" is 0, an optionally
\* signed run of digits is its value, anything else is NaN
Number(s) ==
    IF s = <<>> THEN [nan |-> FALSE, val |-> 0]
    ELSE IF IsDigits(s) THEN [nan |-> FALSE, val |-> DigitsValue(s)]
    ELSE IF s[1] = "-" /\ Len(s) > 1 /\ IsDigits(Tail(s))
         THEN [nan |-> FALSE, val |-> 0 - DigitsValue(Tail(s))]
    ELSE [nan |-> TRUE, val |-> 0]

\* Number(customAmount) || 0: NaN and 0 are falsy
NumberOrZero(s) == IF Number(s).nan \/ Number(s).val = 0 THEN 0 ELSE Number(s).val

\* onChangeText={setCustomAmount}
SetCustomAmount ==
    \E text \in CustomTexts :
        /\ customAmount' = text
        /\ UNCHANGED <<state, prev, lastAction, hist, pending, lastPress>>

PressDecrement ==
    /\ state.counter.value > 0 - MaxValue
    /\ dispatch(Action("counter/decrement", "none"))
    /\ lastPress' = "Decrement"
    /\ UNCHANGED <<hist, pending, customAmount>>

PressIncrement ==
    /\ state.counter.value < MaxValue
    /\ dispatch(Action("counter/increment", "none"))
    /\ lastPress' = "Increment"
    /\ UNCHANGED <<hist, pending, customAmount>>

PressReset ==
    /\ dispatch(Action("counter/reset", "none"))
    /\ lastPress' = "Reset"
    /\ UNCHANGED <<hist, pending, customAmount>>

\* bump(delta) up to its await: the call is suspended on the promise of
\* Haptics.selectionAsync() with delta captured
bump(delta) ==
    /\ Len(pending) < MaxPending
    /\ pending' = Append(pending, delta)
    /\ UNCHANGED <<state, prev, lastAction, hist, customAmount>>

PressAdd ==
    /\ bump(NumberOrZero(customAmount))
    /\ lastPress' = "Add"

PressSubtract ==
    /\ bump(0 - NumberOrZero(customAmount))
    /\ lastPress' = "Subtract"

\* a suspended bump resumes when its promise resolves (the promises of
\* several calls resolve in no fixed order) and dispatches addByAmount(delta)
BumpResume ==
    \E i \in 1..Len(pending) :
        /\ state.counter.value + pending[i] <= MaxValue
        /\ state.counter.value + pending[i] >= 0 - MaxValue
        /\ dispatch(Action("counter/addByAmount", pending[i]))
        /\ pending' = SubSeq(pending, 1, i - 1) \o SubSeq(pending, i + 1, Len(pending))
        /\ UNCHANGED <<hist, customAmount, lastPress>>

NextCounterCard ==
    \/ SetCustomAmount
    \/ PressDecrement
    \/ PressIncrement
    \/ PressReset
    \/ PressAdd
    \/ PressSubtract
    \/ BumpResume

SpecCounterCard == Init /\ [][NextCounterCard]_vars

(* ------------------------------- properties ---------------------------- *)

has(s, id) == \E i \in 1..Len(s) : s[i].id = id

without(s, id) == SelectSeq(s, LAMBDA x : x.id # id)

\* the todo with this id in a sequence that has one
theTodo(s, id) == s[CHOOSE i \in 1..Len(s) : s[i].id = id]

toggled == lastAction.type = "todos/toggleTodo"

removed == lastAction.type = "todos/removeTodo"

added == lastAction.type = "todos/addTodo"

\* C1: toggleTodo(id) with id only in doneItems (put there by an earlier
\* toggleTodo(id)) moves the todo to the front of items with done = false
\* and removes it from doneItems.
C1_ToggleDoneMovesBack ==
    (toggled /\ has(prev.todos.doneItems, lastAction.payload)
             /\ ~ has(prev.todos.items, lastAction.payload))
    => /\ state.todos.items =
            <<[theTodo(prev.todos.doneItems, lastAction.payload) EXCEPT !.done = FALSE]>>
                \o prev.todos.items
       /\ state.todos.doneItems = without(prev.todos.doneItems, lastAction.payload)

\* C2: each todo id occurs at most once in items ++ doneItems.
C2_IdsUnique ==
    LET all == state.todos.items \o state.todos.doneItems IN
    \A i, j \in 1..Len(all) : i # j => all[i].id # all[j].id

C2_Witness ==
    /\ toggled
    /\ Len(state.todos.items) >= 1
    /\ Len(state.todos.doneItems) >= 2

\* C3: toggleTodo(id) with id in items removes the todo from items and
\* appends it, with done = true, as the last element of doneItems; the rest
\* of both lists keeps its elements and order.
C3_ToggleActiveMovesToDoneEnd ==
    (toggled /\ has(prev.todos.items, lastAction.payload))
    => /\ state.todos.items = without(prev.todos.items, lastAction.payload)
       /\ state.todos.doneItems =
            Append(prev.todos.doneItems,
                   [theTodo(prev.todos.items, lastAction.payload) EXCEPT !.done = TRUE])

C3_Witness ==
    /\ toggled
    /\ has(prev.todos.items, lastAction.payload)
    /\ Len(prev.todos.items) >= 2
    /\ Len(prev.todos.doneItems) >= 1

\* C4: toggleTodo(id) and removeTodo(id) with id in neither list leave both
\* lists exactly as they were.
C4_AbsentIdIsNoOp ==
    ((toggled \/ removed)
        /\ ~ has(prev.todos.items, lastAction.payload)
        /\ ~ has(prev.todos.doneItems, lastAction.payload))
    => state.todos = prev.todos

C4_Witness ==
    /\ removed
    /\ ~ has(prev.todos.items, lastAction.payload)
    /\ ~ has(prev.todos.doneItems, lastAction.payload)
    /\ prev.todos.items # <<>>
    /\ prev.todos.doneItems # <<>>

\* C5: every counter operation is applied before any operation triggered
\* after it, so that once Reset is pressed and no counter button is pressed
\* afterwards the counter value is 0.
C5_ResetPressedLastMeansZero ==
    lastPress = "Reset" => state.counter.value = 0

delta(a) ==
    CASE a.type = "counter/increment" -> 1
      [] a.type = "counter/decrement" -> 0 - 1
      [] a.type = "counter/addByAmount" -> a.payload

RECURSIVE sumSinceReset(_)
sumSinceReset(h) ==
    IF h = <<>> THEN 0
    ELSE IF h[Len(h)].type = "counter/reset" THEN 0
    ELSE sumSinceReset(SubSeq(h, 1, Len(h) - 1)) + delta(h[Len(h)])

\* C6: the counter value is the sum of the deltas of the operations
\* dispatched after the last reset (of all of them when there is none).
C6_ValueIsSumSinceReset ==
    state.counter.value = sumSinceReset(hist)

C6_Witness ==
    /\ Len(hist) >= 3
    /\ \E i \in 1..(Len(hist) - 1) :
          /\ hist[i].type = "counter/reset"
          /\ \E k \in 1..(i - 1) : hist[k].type # "counter/reset"
    /\ hist[Len(hist)].type = "counter/decrement"
    /\ state.counter.value # 0

\* C7: addTodo(title) puts a todo with the title, done = false and an id
\* in neither list beforehand at index 0 of items, followed by the previous
\* items in order; doneItems is unchanged.
C7_AddTodoAtFront ==
    added
    => /\ Len(state.todos.items) = Len(prev.todos.items) + 1
       /\ state.todos.items[1].title = lastAction.payload.title
       /\ state.todos.items[1].title \in Titles
       /\ state.todos.items[1].done = FALSE
       /\ state.todos.items[1].id = lastAction.payload.id
       /\ ~ has(prev.todos.items, state.todos.items[1].id)
       /\ ~ has(prev.todos.doneItems, state.todos.items[1].id)
       /\ Tail(state.todos.items) = prev.todos.items
       /\ state.todos.doneItems = prev.todos.doneItems

C7_Witness ==
    /\ added
    /\ prev.todos.items # <<>>
    /\ prev.todos.doneItems # <<>>

\* C8: after removeTodo(id) the id is in neither list, and every other todo
\* is in the same list at the same relative order as before.
C8_RemoveTodo ==
    removed
    => /\ ~ has(state.todos.items, lastAction.payload)
       /\ ~ has(state.todos.doneItems, lastAction.payload)
       /\ state.todos.items = without(prev.todos.items, lastAction.payload)
       /\ state.todos.doneItems = without(prev.todos.doneItems, lastAction.payload)

C8_Witness ==
    /\ removed
    /\ has(prev.todos.doneItems, lastAction.payload)
    /\ Len(prev.todos.doneItems) >= 2
    /\ prev.todos.items # <<>>

\* C9: every todo in items has done = false and every todo in doneItems
\* has done = true.
C9_ListsPartitionByDone ==
    /\ \A i \in 1..Len(state.todos.items) : state.todos.items[i].done = FALSE
    /\ \A i \in 1..Len(state.todos.doneItems) : state.todos.doneItems[i].done = TRUE

C9_Witness ==
    /\ added
    /\ Len(state.todos.items) >= 2
    /\ state.todos.doneItems # <<>>

uiTypes == {"ui/toggleDarkMode", "ui/dismissBanner"}

counterTypes ==
    {"counter/increment", "counter/decrement", "counter/reset", "counter/addByAmount"}

todosTypes ==
    {"todos/addTodo", "todos/toggleTodo", "todos/removeTodo", "todos/clearTodos"}

\* C10: the ui actions leave counter and todos unchanged, the counter actions
\* leave ui and todos unchanged, and the todos actions leave ui and counter
\* unchanged.
C10_SlicesIndependent ==
    /\ lastAction.type \in uiTypes
        => (state.counter = prev.counter /\ state.todos = prev.todos)
    /\ lastAction.type \in counterTypes
        => (state.ui = prev.ui /\ state.todos = prev.todos)
    /\ lastAction.type \in todosTypes
        => (state.ui = prev.ui /\ state.counter = prev.counter)

C10_Witness ==
    /\ lastAction.type = "ui/toggleDarkMode"
    /\ state.ui # prev.ui
    /\ prev.counter.value # 0
    /\ prev.todos.items # <<>>
    /\ prev.todos.doneItems # <<>>

====
